---------------------------- MODULE Spec2Model ----------------------------
(***************************************************************************)
(* State observer + PLL speed/position feedback (sto_speed_pos_fdbk.c) and *)
(* feed-forward voltage control (feed_forward_ctrl.c) of the FOC motor     *)
(* control library, as state machines over the component handles.          *)
(*                                                                         *)
(* The build modelled is the default one (FULL_MISRA_C_COMPLIANCY not      *)
(* defined: right shifts) for the observer; the feed-forward low-pass      *)
(* carries both arithmetic forms.  C integer conversions are kept: int16_t *)
(* and uint8_t results wrap, `/` truncates toward zero, `>>` on a signed   *)
(* value is the arithmetic shift of the target compilers (floor).          *)
(***************************************************************************)
EXTENDS Integers, Sequences, FiniteSets, TLC

-----------------------------------------------------------------------------
(* C arithmetic *)

INT16_MAX == 32767

C6_COMP_CONST1 == 1043038

C6_COMP_CONST2 == 10430

Abs(x) == IF x < 0 THEN -x ELSE x

Pow2(k) == 2^k

\* (int16_t) x : conversion of an int to a 16 bit signed value (wraps)
Wrap16(x) == ((x + 32768) % 65536) - 32768

\* (uint16_t) x
WrapU16(x) == x % 65536

\* (uint8_t) x
WrapU8(x) == x % 256

\* a / b of C (truncation toward zero), b # 0
CDiv(a, b) == IF (a >= 0) = (b > 0) THEN Abs(a) \div Abs(b)
              ELSE -(Abs(a) \div Abs(b))

\* a >> k on a signed int (arithmetic shift: floor)
Asr(a, k) == a \div Pow2(k)

\* a << k
Shl(a, k) == a * Pow2(k)

-----------------------------------------------------------------------------
(* Configuration of the observer handle.  The parameters are fields of     *)
(* STO_Handle_t set by the application before STO_Init; the values are the *)
(* ones the model runs with.                                               *)

\* Gains and scaling factors read by STO_Init and STO_CalcElAngle.
ObserverParams ==
  [ hF1 |-> 16384, F1LOG |-> 14, hF2 |-> 16384, F2LOG |-> 14,
    hC1 |-> 500, hC2 |-> 20000, hC3 |-> 300, hC4 |-> 10000, hC5 |-> 400 ]

\* Parameters read by STO_CalcAvrgMecSpeed01Hz.
ReliabilityParams ==
  [ VariancePercentage |-> 10, hMeasurementFrequency |-> 40,
    bElToMecRatio |-> 1, MaxAppPositiveMecSpeed01Hz |-> 1000,
    hMaxReliableMecSpeed01Hz |-> 1000, BemfConsistencyGain |-> 64,
    BemfConsistencyCheck |-> 32 ]

\* Parameters read by STO_IsObserverConverged.
ConvergenceParams ==
  [ SpeedValidationBand_H |-> 18, SpeedValidationBand_L |-> 14,
    MinStartUpValidSpeed |-> 50 ]

\* Gains of the PLL's PI regulator (PID_Handle_t PIRegulator of the handle).
PLLParams == [ hKpGain |-> 8, hKiGain |-> 1, hKiDivisor |-> 2 ]

\* StartUpConsistThreshold of the handle.
StartUpConsistThreshold == 2

\* Reliability_hysteresys of the handle.
Reliability_hysteresys == 2

\* bMaximumSpeedErrorsNumber of the base speed-position-feedback handle.
bMaximumSpeedErrorsNumber == 2

\* (SpeedBufferSize01Hz, SpeedBufferSizedpp, SpeedBufferSizedppLOG) triples:
\* the two buffer depths, 1 <= Ndpp <= N01Hz, Ndpp = 2^LOG.
BufferConfigs ==
  { <<2, 2, 1>>, <<2, 1, 0>>, <<3, 2, 1>>, <<3, 1, 0>>, <<4, 4, 2>>,
    <<4, 2, 1>> }

-----------------------------------------------------------------------------
(* Operations of sto_speed_pos_fdbk.c.  Each takes the handle p (a record  *)
(* of the fields of STO_Handle_t, the _Super and PIRegulator fields        *)
(* flattened) and yields the handle the call leaves.                       *)

\* PID_SetIntegralTerm(&pHandle->PIRegulator, v)
PID_SetIntegralTerm(p, v) == [p EXCEPT !.wIntegralTerm = v]

\* PID_HandleInit(&pHandle->PIRegulator): gains back to their defaults,
\* integral term zero.
PID_HandleInit(p) ==
  [p EXCEPT !.hKpGain = PLLParams.hKpGain, !.hKiGain = PLLParams.hKiGain,
            !.wIntegralTerm = 0]

STO_InitSpeedBuffer(p) ==
  [p EXCEPT !.Speed_Buffer = [i \in 0 .. (p.SpeedBufferSize01Hz - 1) |-> 0],
            !.Speed_Buffer_Index = 0,
            !.SpeedBufferOldestEl = 0]

STO_Clear(p) ==
  LET q == [p EXCEPT !.Ialfa_est = 0, !.Ibeta_est = 0,
                     !.wBemf_alfa_est = 0, !.wBemf_beta_est = 0,
                     !.hElAngle = 0, !.hElSpeedDpp = 0,
                     !.ConsistencyCounter = 0, !.ReliabilityCounter = 0,
                     !.IsAlgorithmConverged = FALSE,
                     !.IsBemfConsistent = FALSE,
                     !.Obs_Bemf_Level = 0, !.Est_Bemf_Level = 0,
                     !.DppBufferSum = 0,
                     !.ForceConvergency = FALSE,
                     !.ForceConvergency2 = FALSE]
  IN PID_SetIntegralTerm(STO_InitSpeedBuffer(q), 0)

\* The halving loop of STO_Init: <<F3POW2, wAux>> once htempk is zero.
RECURSIVE F3Loop(_, _, _)
F3Loop(htempk, wAux, pow) ==
  IF htempk = 0 THEN <<pow, wAux>>
  ELSE F3Loop(Wrap16(CDiv(htempk, 2)), 2 * wAux, pow + 1)

\* The handle as the application fills it before STO_Init: parameters set,
\* the rest of the static storage zero.
RawHandle(cfg) ==
  ObserverParams @@ ReliabilityParams @@ ConvergenceParams @@
  [ SpeedBufferSize01Hz |-> cfg[1], SpeedBufferSizedpp |-> cfg[2],
    SpeedBufferSizedppLOG |-> cfg[3],
    StartUpConsistThreshold |-> StartUpConsistThreshold,
    Reliability_hysteresys |-> Reliability_hysteresys,
    bMaximumSpeedErrorsNumber |-> bMaximumSpeedErrorsNumber,
    hF3 |-> 0, F3POW2 |-> 0, hC6 |-> 0,
    Ialfa_est |-> 0, Ibeta_est |-> 0,
    wBemf_alfa_est |-> 0, wBemf_beta_est |-> 0,
    hBemf_alfa_est |-> 0, hBemf_beta_est |-> 0,
    hElAngle |-> 0, hElSpeedDpp |-> 0, hAvrMecSpeed01Hz |-> 0,
    hMecAccel01HzP |-> 0, bSpeedErrorNumber |-> 0,
    Speed_Buffer |-> [i \in 0 .. (cfg[1] - 1) |-> 0],
    Speed_Buffer_Index |-> 0, SpeedBufferOldestEl |-> 0,
    DppBufferSum |-> 0,
    ConsistencyCounter |-> 0, ReliabilityCounter |-> 0,
    IsAlgorithmConverged |-> FALSE, IsBemfConsistent |-> FALSE,
    IsSpeedReliable |-> FALSE, EnableDualCheck |-> FALSE,
    ForceConvergency |-> FALSE, ForceConvergency2 |-> FALSE,
    Obs_Bemf_Level |-> 0, Est_Bemf_Level |-> 0,
    wIntegralTerm |-> 0, hKpGain |-> PLLParams.hKpGain,
    hKiGain |-> PLLParams.hKiGain, hKiDivisor |-> PLLParams.hKiDivisor ]

STO_Init(p) ==
  LET loop == F3Loop(Wrap16(CDiv(C6_COMP_CONST1, p.hF2)), 1, 0)
      hF3  == Wrap16(loop[2])
      q    == [p EXCEPT !.ConsistencyCounter = p.StartUpConsistThreshold,
                        !.EnableDualCheck = TRUE,
                        !.F3POW2 = loop[1],
                        !.hF3 = hF3,
                        !.hC6 = Wrap16(CDiv(p.hF2 * hF3, C6_COMP_CONST2))]
  IN [PID_HandleInit(STO_Clear(q)) EXCEPT !.hMecAccel01HzP = 0]

-----------------------------------------------------------------------------
(* Collaborators of the observer (mc_math.c, pid_regulator.c,              *)
(* speed_pos_fdbk.c): not part of the component.                           *)

\* MCM_Trig_Functions(hAngle): <<hSin, hCos>>, scaled to +/-32767, on the
\* quadrant angles the model's rotor angle takes.
MCM_Trig_Functions(hAngle) ==
  CASE hAngle = 0      -> <<0, 32767>>
    [] hAngle = 16384  -> <<32767, 0>>
    [] hAngle = -32768 -> <<0, -32767>>
    [] hAngle = -16384 -> <<-32767, 0>>

\* PI_Controller(&PIRegulator, wProcessVarError).  With a zero error the
\* regulator holds: its output is the integral term over the integral
\* divisor (what STO_SetPLL preloads).  With a nonzero error the output is
\* the regulator's, any s16 speed hOut, and the integral term follows it.
PI_Controller(p, wProcessVarError, hOut) ==
  IF wProcessVarError = 0
  THEN [h |-> p, out |-> Wrap16(CDiv(p.wIntegralTerm, p.hKiDivisor))]
  ELSE [h |-> [p EXCEPT !.wIntegralTerm = hOut * p.hKiDivisor], out |-> hOut]

\* SPD_IsMecSpeedReliable(&_Super, pMecSpeed01Hz): the base class keeps its
\* own error hysteresis in bSpeedErrorNumber and returns its verdict; both
\* are the base's, bErr and bRet.
SPD_IsMecSpeedReliable(p, bRet, bErr) ==
  [h |-> [p EXCEPT !.bSpeedErrorNumber = bErr], ret |-> bRet]

-----------------------------------------------------------------------------
(* STO_CalcElAngle and its helpers *)

\* STO_Store_Rotor_Speed that advances the index by two slots.
STO_Store_Rotor_Speed_SkipSlot(p, hRotor_Speed) ==
  LET inc == WrapU8(p.Speed_Buffer_Index + 2)
      bBuffer_index == inc % p.SpeedBufferSize01Hz
  IN [p EXCEPT !.SpeedBufferOldestEl = p.Speed_Buffer[bBuffer_index],
               !.Speed_Buffer = [p.Speed_Buffer EXCEPT
                                   ![bBuffer_index] = hRotor_Speed],
               !.Speed_Buffer_Index = bBuffer_index]

\* STO_Store_Rotor_Speed that stores before it advances the index.
STO_Store_Rotor_Speed_StaleIndex(p, hRotor_Speed) ==
  LET inc == WrapU8(p.Speed_Buffer_Index + 1)
      bBuffer_index == IF inc = p.SpeedBufferSize01Hz THEN 0 ELSE inc
  IN [p EXCEPT !.SpeedBufferOldestEl = p.Speed_Buffer[bBuffer_index],
               !.Speed_Buffer = [p.Speed_Buffer EXCEPT
                                   ![p.Speed_Buffer_Index] = hRotor_Speed],
               !.Speed_Buffer_Index = bBuffer_index]

STO_Store_Rotor_Speed(p, hRotor_Speed) ==
  LET inc == WrapU8(p.Speed_Buffer_Index + 1)
      bBuffer_index == IF inc = p.SpeedBufferSize01Hz THEN 0 ELSE inc
  IN [p EXCEPT !.SpeedBufferOldestEl = p.Speed_Buffer[bBuffer_index],
               !.Speed_Buffer = [p.Speed_Buffer EXCEPT
                                   ![bBuffer_index] = hRotor_Speed],
               !.Speed_Buffer_Index = bBuffer_index]

\* PLLError with the divisions of the FULL_MISRA_C_COMPLIANCY build in
\* place of the shifts.
PLLError_Div(hElAngle, hBemf_alfa_est, hBemf_beta_est) ==
  LET Local_Components == MCM_Trig_Functions(hElAngle)
      wAlfa_Sin_tmp == hBemf_alfa_est * Local_Components[1]
      wBeta_Cos_tmp == hBemf_beta_est * Local_Components[2]
      hAux1 == Wrap16(CDiv(wBeta_Cos_tmp, 32768))
      hAux2 == Wrap16(CDiv(wAlfa_Sin_tmp, 32768))
  IN hAux1 - hAux2

\* The error STO_ExecutePLL hands to the PI regulator.
PLLError(hElAngle, hBemf_alfa_est, hBemf_beta_est) ==
  LET Local_Components == MCM_Trig_Functions(hElAngle)
      wAlfa_Sin_tmp == hBemf_alfa_est * Local_Components[1]
      wBeta_Cos_tmp == hBemf_beta_est * Local_Components[2]
      hAux1 == Wrap16(Asr(wBeta_Cos_tmp, 15))
      hAux2 == Wrap16(Asr(wAlfa_Sin_tmp, 15))
  IN hAux1 - hAux2

\* Yields the regulator's [h, out] and err, the error handed to it.
STO_ExecutePLL(p, hBemf_alfa_est, hBemf_beta_est, hOut) ==
  LET wProcessVarError ==
          PLLError(p.hElAngle, hBemf_alfa_est, hBemf_beta_est)
  IN PI_Controller(p, wProcessVarError, hOut)
       @@ [err |-> wProcessVarError]

\* ClampEst with the clamp left out.
ClampEst_None(w, hF) == w

\* ClampEst with the sign of the lower limit lost in the comparison.
ClampEst_LowerSign(w, hF) ==
  IF w > INT16_MAX * hF THEN INT16_MAX * hF
  ELSE IF w <= INT16_MAX * hF THEN -INT16_MAX * hF
  ELSE w

\* One scaled estimate after the clamp at the head of STO_CalcElAngle.
ClampEst(w, hF) ==
  IF w > INT16_MAX * hF THEN INT16_MAX * hF
  ELSE IF w <= -INT16_MAX * hF THEN -INT16_MAX * hF
  ELSE w

\* The handle after the four clamps at the head of STO_CalcElAngle.
STO_Clamped(p) ==
  [p EXCEPT !.wBemf_alfa_est = ClampEst(p.wBemf_alfa_est, p.hF2),
            !.wBemf_beta_est = ClampEst(p.wBemf_beta_est, p.hF2),
            !.Ialfa_est = ClampEst(p.Ialfa_est, p.hF1),
            !.Ibeta_est = ClampEst(p.Ibeta_est, p.hF1)]

\* in: the Observer_Inputs_t (Ialfa, Ibeta, Valfa, Vbeta, Vbus); hOut: the
\* PI regulator's output when its error is not zero.
\* Yields [h |-> the handle, ret |-> the returned electrical angle,
\* speed |-> the speed handed to STO_Store_Rotor_Speed].
STO_CalcElAngle(p, in, hOut) ==
  LET c == STO_Clamped(p)
      hAux_Alfa == Wrap16(Asr(c.wBemf_alfa_est, c.F2LOG))
      hAux_Beta == Wrap16(Asr(c.wBemf_beta_est, c.F2LOG))
      hIalfa_err == Wrap16(Wrap16(Asr(c.Ialfa_est, c.F1LOG)) - in.Ialfa)
      hIbeta_err == Wrap16(Wrap16(Asr(c.Ibeta_est, c.F1LOG)) - in.Ibeta)
      hValfa == Wrap16(Asr(in.Vbus * in.Valfa, 16))
      hVbeta == Wrap16(Asr(in.Vbus * in.Vbeta, 16))
      hAuxA == Wrap16(Asr(c.Ialfa_est, c.F1LOG))
      wIalfa_est_Next == c.Ialfa_est - c.hC1 * hAuxA + c.hC2 * hIalfa_err
                          + c.hC5 * hValfa - c.hC3 * hAux_Alfa
      wBemf_alfa_est_Next == c.wBemf_alfa_est + c.hC4 * hIalfa_err
                          + c.hElSpeedDpp * (Asr(hAux_Beta, c.F3POW2) * c.hC6)
      hAuxB == Wrap16(Asr(c.Ibeta_est, c.F1LOG))
      wIbeta_est_Next == c.Ibeta_est - c.hC1 * hAuxB + c.hC2 * hIbeta_err
                          + c.hC5 * hVbeta - c.hC3 * hAux_Beta
      wBemf_beta_est_Next == c.wBemf_beta_est + c.hC4 * hIbeta_err
                          - c.hElSpeedDpp * (Asr(hAux_Alfa, c.F3POW2) * c.hC6)
      wDirection == IF c.hElSpeedDpp >= 0 THEN 1 ELSE -1
      d == [c EXCEPT !.hBemf_alfa_est = hAux_Alfa,
                     !.hBemf_beta_est = hAux_Beta]
      pll == STO_ExecutePLL(d, Wrap16(hAux_Alfa * wDirection),
                            Wrap16(-Wrap16(hAux_Beta * wDirection)), hOut)
      hRotor_Speed == pll.out
      s == STO_Store_Rotor_Speed(pll.h, hRotor_Speed)
      hElAngle == Wrap16(s.hElAngle + hRotor_Speed)
  IN [h |-> [s EXCEPT !.hElAngle = hElAngle,
                      !.Ialfa_est = wIalfa_est_Next,
                      !.wBemf_alfa_est = wBemf_alfa_est_Next,
                      !.Ibeta_est = wIbeta_est_Next,
                      !.wBemf_beta_est = wBemf_beta_est_Next],
      ret |-> hElAngle, speed |-> hRotor_Speed, err |-> pll.err]

-----------------------------------------------------------------------------
(* STO_CalcAvrgMecSpeed01Hz *)

RECURSIVE SumBuffer(_, _)
\* Speed_Buffer[0] + ... + Speed_Buffer[n-1]
SumBuffer(buf, n) == IF n = 0 THEN 0 ELSE SumBuffer(buf, n - 1) + buf[n - 1]

RECURSIVE SumSquareError(_, _, _)
\* the sum of (Speed_Buffer[i] - avg)^2 over i < n
SumSquareError(buf, n, avg) ==
  IF n = 0 THEN 0
  ELSE SumSquareError(buf, n - 1, avg) + (buf[n - 1] - avg) * (buf[n - 1] - avg)

\* VarianceTight with a non-strict comparison.
VarianceTight_NonStrict(wAvrQuadraticError, wAvrSquareSpeed) ==
  wAvrQuadraticError <= wAvrSquareSpeed

\* The variance test: the value bIs_Speed_Reliable gets.
VarianceTight(wAvrQuadraticError, wAvrSquareSpeed) ==
  wAvrQuadraticError < wAvrSquareSpeed

\* BemfCheck without the test of the speed range.
BemfCheck_Unranged(p, wAux) ==
  LET wObsBemfSq == p.hBemf_alfa_est * p.hBemf_alfa_est
                     + p.hBemf_beta_est * p.hBemf_beta_est
      wEstBemf == CDiv(wAux * 32767, p.hMaxReliableMecSpeed01Hz)
      wEstBemfSq == CDiv(wEstBemf * p.BemfConsistencyGain, 64) * wEstBemf
      wEstBemfSqLo == wEstBemfSq
                       - CDiv(wEstBemfSq, 64) * p.BemfConsistencyCheck
  IN <<wObsBemfSq > wEstBemfSqLo, wObsBemfSq, wEstBemfSq>>

\* The Bemf consistency check on |speed| wAux: <<bIs_Bemf_Consistent,
\* wObsBemfSq, wEstBemfSq>>.
BemfCheck(p, wAux) ==
  IF wAux < p.MaxAppPositiveMecSpeed01Hz
  THEN LET wObsBemfSq == p.hBemf_alfa_est * p.hBemf_alfa_est
                          + p.hBemf_beta_est * p.hBemf_beta_est
           wEstBemf == CDiv(wAux * 32767, p.hMaxReliableMecSpeed01Hz)
           wEstBemfSq == CDiv(wEstBemf * p.BemfConsistencyGain, 64) * wEstBemf
           wEstBemfSqLo == wEstBemfSq
                            - CDiv(wEstBemfSq, 64) * p.BemfConsistencyCheck
       IN <<wObsBemfSq > wEstBemfSqLo, wObsBemfSq, wEstBemfSq>>
  ELSE <<FALSE, 0, 0>>

\* ReliabilityTrip with the comparison made strict: trips one call late.
ReliabilityTrip_Strict(n, hysteresys) == n > hysteresys

\* Whether the failing tick that makes ReliabilityCounter n trips.
ReliabilityTrip(n, hysteresys) == n >= hysteresys

\* ReliabilityLost that also withdraws the convergence declaration.
ReliabilityLost_Unlatch(p) ==
  [p EXCEPT !.ReliabilityCounter = 0,
            !.bSpeedErrorNumber = p.bMaximumSpeedErrorsNumber,
            !.IsAlgorithmConverged = FALSE]

\* The stores of the tripping branch.
ReliabilityLost(p) ==
  [p EXCEPT !.ReliabilityCounter = 0,
            !.bSpeedErrorNumber = p.bMaximumSpeedErrorsNumber]

\* The decision making at the end of STO_CalcAvrgMecSpeed01Hz, on the handle
\* p the checks left and the local bIs_Bemf_Consistent.
\* Yields [h, ret, base |-> whether SPD_IsMecSpeedReliable was called].
ReliabilityDecision(p, bIs_Bemf_Consistent, bRet, bErr) ==
  LET base == SPD_IsMecSpeedReliable(p, bRet, bErr)
  IN IF p.IsAlgorithmConverged = FALSE
     THEN [h |-> base.h, ret |-> base.ret, base |-> TRUE]
     ELSE IF (p.IsSpeedReliable = FALSE) \/ (bIs_Bemf_Consistent = FALSE)
     THEN LET n == WrapU8(p.ReliabilityCounter + 1)
          IN IF ReliabilityTrip(n, p.Reliability_hysteresys)
             THEN [h |-> ReliabilityLost(p), ret |-> FALSE, base |-> FALSE]
             ELSE LET q == [p EXCEPT !.ReliabilityCounter = n]
                      b == SPD_IsMecSpeedReliable(q, bRet, bErr)
                  IN [h |-> b.h, ret |-> b.ret, base |-> TRUE]
     ELSE LET q == [p EXCEPT !.ReliabilityCounter = 0]
              b == SPD_IsMecSpeedReliable(q, bRet, bErr)
          IN [h |-> b.h, ret |-> b.ret, base |-> TRUE]

\* bRet, bErr: what SPD_IsMecSpeedReliable returns and leaves, if called.
\* STO_CalcAvrgMecSpeed01Hz on the buffer contents its two loops read:
\* bufMean[i] is what the mean loop read from Speed_Buffer[i], bufVar[i]
\* what the variance loop read; the rest of the handle is read in p.
STO_CalcAvrgMecSpeed01Hz_Reads(p, bufMean, bufVar, bRet, bErr) ==
  LET n == p.SpeedBufferSize01Hz
      wAvrSpeed_dpp == CDiv(SumBuffer(bufMean, n), n)
      wAvrQuadraticError ==
          CDiv(SumSquareError(bufVar, n, wAvrSpeed_dpp), n)
      wAvrSquareSpeed == CDiv(wAvrSpeed_dpp * wAvrSpeed_dpp, 128)
                           * p.VariancePercentage
      bIs_Speed_Reliable == VarianceTight(wAvrQuadraticError, wAvrSquareSpeed)
      wAux == CDiv(CDiv(wAvrSpeed_dpp * p.hMeasurementFrequency * 10, 65536),
                   p.bElToMecRatio)
      q == [p EXCEPT !.hAvrMecSpeed01Hz = Wrap16(wAux),
                     !.IsSpeedReliable = bIs_Speed_Reliable]
      chk == BemfCheck(q, Abs(wAux))
      r == IF q.EnableDualCheck = TRUE
           THEN [q EXCEPT !.IsBemfConsistent = chk[1],
                          !.Obs_Bemf_Level = chk[2],
                          !.Est_Bemf_Level = chk[3]]
           ELSE q
      bIs_Bemf_Consistent == IF q.EnableDualCheck = TRUE THEN chk[1] ELSE TRUE
  IN ReliabilityDecision(r, bIs_Bemf_Consistent, bRet, bErr)

\* The call when nothing preempts it: both loops read the same buffer.
STO_CalcAvrgMecSpeed01Hz(p, bRet, bErr) ==
  STO_CalcAvrgMecSpeed01Hz_Reads(p, p.Speed_Buffer, p.Speed_Buffer,
                                 bRet, bErr)

-----------------------------------------------------------------------------
(* STO_CalcAvrgElSpeedDpp *)

\* IndexOld stepping backward from the newest sample instead of forward.
IndexOld_Backward(hIndexNew, hBufferSizeDiff, hSpeedBufferSize01Hz) ==
  LET hIndexOldTemp == Wrap16(hIndexNew - hBufferSizeDiff)
  IN IF hIndexOldTemp < 0
     THEN Wrap16(hIndexOldTemp + hSpeedBufferSize01Hz)
     ELSE hIndexOldTemp

\* The buffer index of the sample that leaves the Ndpp window.
IndexOld(hIndexNew, hBufferSizeDiff, hSpeedBufferSize01Hz) ==
  LET hIndexOldTemp == Wrap16(hIndexNew + hBufferSizeDiff)
  IN IF hIndexOldTemp >= hSpeedBufferSize01Hz
     THEN Wrap16(hIndexOldTemp - hSpeedBufferSize01Hz)
     ELSE hIndexOldTemp

\* The buffer positions STO_CalcAvrgElSpeedDpp reads: the newest one, and
\* the leaving one when the two window sizes differ.
AvrgElSpeedDppPositions(p) ==
  LET hIndexNew == p.Speed_Buffer_Index
      hBufferSizeDiff == Wrap16(p.SpeedBufferSize01Hz - p.SpeedBufferSizedpp)
  IN IF hBufferSizeDiff = 0 THEN { hIndexNew }
     ELSE { hIndexNew,
            IndexOld(hIndexNew, hBufferSizeDiff, p.SpeedBufferSize01Hz) }

STO_CalcAvrgElSpeedDpp(p) ==
  LET hIndexNew == p.Speed_Buffer_Index
      hBufferSizeDiff == Wrap16(p.SpeedBufferSize01Hz - p.SpeedBufferSizedpp)
      wSum == IF hBufferSizeDiff = 0
              THEN p.DppBufferSum + p.Speed_Buffer[hIndexNew]
                     - p.SpeedBufferOldestEl
              ELSE p.DppBufferSum + p.Speed_Buffer[hIndexNew]
                     - p.Speed_Buffer[IndexOld(hIndexNew, hBufferSizeDiff,
                                               p.SpeedBufferSize01Hz)]
      wAvrSpeed_dpp == Asr(wSum, p.SpeedBufferSizedppLOG)
  IN [p EXCEPT !.hElSpeedDpp = Wrap16(wAvrSpeed_dpp),
               !.DppBufferSum = wSum]

-----------------------------------------------------------------------------
(* STO_IsObserverConverged *)

\* ConsistencyReached with the comparison made strict: one call late.
ConsistencyReached_Strict(n, threshold) == n > threshold

\* Whether the counter value n declares convergence.
ConsistencyReached(n, threshold) == n >= threshold

\* The checks of the else branch, on the estimated and the forced speed.
\* Yields [h, ret].
ConvergenceChecks(p, hEstimated, hForced) ==
  LET wtemp == hEstimated * hForced
      hEstimatedSpeed01Hz ==
          IF hEstimated < 0 THEN Wrap16(-hEstimated) ELSE hEstimated
      hForcedMecSpeed01Hz == IF hForced < 0 THEN Wrap16(-hForced) ELSE hForced
      hUpperThreshold ==
          Wrap16(CDiv(hForcedMecSpeed01Hz * p.SpeedValidationBand_H, 16))
      hLowerThreshold ==
          Wrap16(CDiv(hForcedMecSpeed01Hz * p.SpeedValidationBand_L, 16))
      reset == [h |-> [p EXCEPT !.ConsistencyCounter = 0], ret |-> FALSE]
  IN IF wtemp > 0
     THEN IF p.IsSpeedReliable = TRUE
          THEN IF WrapU16(hEstimatedSpeed01Hz) > p.MinStartUpValidSpeed
               THEN IF hEstimatedSpeed01Hz >= hLowerThreshold
                    THEN IF hEstimatedSpeed01Hz <= hUpperThreshold
                         THEN LET n == WrapU8(p.ConsistencyCounter + 1)
                                  q == [p EXCEPT !.ConsistencyCounter = n]
                              IN IF ConsistencyReached(
                                      n, p.StartUpConsistThreshold)
                                 THEN [h |-> [q EXCEPT
                                          !.IsAlgorithmConverged = TRUE,
                                          !.bSpeedErrorNumber = 0],
                                       ret |-> TRUE]
                                 ELSE [h |-> q, ret |-> FALSE]
                         ELSE reset
                    ELSE reset
               ELSE reset
          ELSE reset
     ELSE [h |-> p, ret |-> FALSE]

\* STO_IsObserverConverged whose forced branch also restarts the count.
STO_IsObserverConverged_Recount(p, hForcedMecSpeed01Hz) ==
  LET hForced == IF p.ForceConvergency2 = TRUE THEN p.hAvrMecSpeed01Hz
                 ELSE hForcedMecSpeed01Hz
  IN IF p.ForceConvergency = TRUE
     THEN [h |-> [p EXCEPT !.IsAlgorithmConverged = TRUE,
                           !.bSpeedErrorNumber = 0,
                           !.ConsistencyCounter = 0],
           ret |-> TRUE]
     ELSE ConvergenceChecks(p, p.hAvrMecSpeed01Hz, hForced)

\* Yields [h, ret].
STO_IsObserverConverged(p, hForcedMecSpeed01Hz) ==
  LET hForced == IF p.ForceConvergency2 = TRUE THEN p.hAvrMecSpeed01Hz
                 ELSE hForcedMecSpeed01Hz
  IN IF p.ForceConvergency = TRUE
     THEN [h |-> [p EXCEPT !.IsAlgorithmConverged = TRUE,
                           !.bSpeedErrorNumber = 0],
           ret |-> TRUE]
     ELSE ConvergenceChecks(p, p.hAvrMecSpeed01Hz, hForced)

-----------------------------------------------------------------------------
(* Getters and setters *)

STO_GetEstimatedBemf(p) == <<p.hBemf_alfa_est, p.hBemf_beta_est>>

STO_GetEstimatedCurrent(p) ==
  <<Wrap16(Asr(p.Ialfa_est, p.F1LOG)), Wrap16(Asr(p.Ibeta_est, p.F1LOG))>>

STO_SetObserverGains(p, hhC1, hhC2) == [p EXCEPT !.hC2 = hhC1, !.hC4 = hhC2]

STO_SetPLLGains(p, hPgain, hIgain) ==
  [p EXCEPT !.hKpGain = hPgain, !.hKiGain = hIgain]

STO_ResetPLL(p) == PID_SetIntegralTerm(p, 0)

STO_SetPLL(p, hElSpeedDpp, hElAngle) ==
  [PID_SetIntegralTerm(p, hElSpeedDpp * p.hKiDivisor)
     EXCEPT !.hElAngle = hElAngle]

STO_BemfConsistencyCheckSwitch(p, bSel) == [p EXCEPT !.EnableDualCheck = bSel]

\* STO_ForceConvergency1 that declares convergence itself.
STO_ForceConvergency1_Declare(p) ==
  [p EXCEPT !.ForceConvergency = TRUE, !.IsAlgorithmConverged = TRUE]

STO_ForceConvergency1(p) == [p EXCEPT !.ForceConvergency = TRUE]

STO_ForceConvergency2(p) == [p EXCEPT !.ForceConvergency2 = TRUE]

STO_SetMinStartUpValidSpeed01HZ(p, hMinStartUpValidSpeed) ==
  [p EXCEPT !.MinStartUpValidSpeed = hMinStartUpValidSpeed]

-----------------------------------------------------------------------------
(* The observer as a state machine.                                        *)
(*   sto : the STO_Handle_t instance                                       *)
(*   g   : what the callers see and history kept for the properties        *)
(*         op       the last operation called                              *)
(*         ret      the bool the last bool-returning call returned         *)
(*         base     whether that call consulted SPD_IsMecSpeedReliable     *)
(*         baseRet  the verdict the base gave it                           *)
(*         convCalls, allSat  the STO_IsObserverConverged calls since the  *)
(*                  last clear, and whether each met the four conditions   *)
(*                  with no force flag set                                 *)
(*         convMiss whether the last such call missed a condition          *)
(*         failRun  failing STO_CalcAvrgMecSpeed01Hz calls in a row while  *)
(*                  converged; fail: whether the last call was failing     *)
(*         prevRC   ReliabilityCounter before the last call                *)
(*         hist     the speeds stored since the last clear, newest first   *)
(*         pending  STO_CalcElAngle calls since the last averaging call    *)
(*         sync     since the last clear, one averaging call followed each *)
(*                  STO_CalcElAngle                                        *)
(*         used     the four scaled estimates the last STO_CalcElAngle     *)
(*                  consumed (after its clamps)                            *)
(*   nops: the number of calls made                                        *)
(***************************************************************************)
VARIABLES sto, g, nops, ff, fg

vars == <<sto, g, nops, ff, fg>>

\* Speeds (dpp) the PLL runs at: preloaded by STO_SetPLL, output by the PI.
PllSpeeds == {0, 16384, -16384}

\* Rotor angles STO_SetPLL preloads.
PllAngles == {0, 16384}

\* With zero observer inputs from the cleared state the BEMF estimates stay
\* zero, the PLL error is zero and the PI regulator holds its output: the
\* output drawn for a nonzero error is never used.
HeldOutput == {0}

\* Forced mechanical speeds (0.1 Hz) handed to STO_IsObserverConverged.
ForcedSpeeds == {100, -100, 200}

\* Values STO_SetMinStartUpValidSpeed01HZ is called with.
MinSpeeds == {50, 150}

ZeroInputs == { [Ialfa |-> 0, Ibeta |-> 0, Valfa |-> 0, Vbeta |-> 0,
                 Vbus |-> 0] }

\* Observer inputs of a running drive: currents, voltage commands, bus.
DriveInputs ==
  { [Ialfa |-> 0, Ibeta |-> 0, Valfa |-> 0, Vbeta |-> 0, Vbus |-> 0],
    [Ialfa |-> -32767, Ibeta |-> 32767, Valfa |-> 32767, Vbeta |-> -32767,
     Vbus |-> 32767],
    [Ialfa |-> 1000, Ibeta |-> -2000, Valfa |-> 8000, Vbeta |-> 8000,
     Vbus |-> 16384] }

\* Bounds on the runs explored.
MaxOps == 4

MaxConvOps == 7

MaxRelOps == 8

MaxBufOps == 11

MaxObsOps == 4

MaxConvCalls == 3

MaxFailRun == 4

InitGhost ==
  [ op |-> "init", ret |-> FALSE, base |-> FALSE, baseRet |-> FALSE,
    convCalls |-> 0, allSat |-> TRUE, convMiss |-> FALSE,
    failRun |-> 0, fail |-> FALSE, prevRC |-> 0,
    hist |-> << >>, pending |-> 0, sync |-> TRUE,
    used |-> <<0, 0, 0, 0>>,
    mpc |-> 0, mreads |-> << >>, mmean |-> << >>, mvar |-> << >>,
    err |-> 0, angle |-> 0 ]

\* The four conditions of the convergence detector on the estimated speed
\* of the handle and the forced speed, in exact arithmetic.
FourConditions(p, hForced) ==
  LET est == p.hAvrMecSpeed01Hz
  IN /\ est * hForced > 0
     /\ Abs(est) > p.MinStartUpValidSpeed
     /\ Abs(hForced) * p.SpeedValidationBand_L <= 16 * Abs(est)
     /\ 16 * Abs(est) <= Abs(hForced) * p.SpeedValidationBand_H
     /\ p.IsSpeedReliable

\* Whether the tick STO_CalcAvrgMecSpeed01Hz just judged is a failing one.
FailingTick(p) ==
  (~p.IsSpeedReliable) \/ (p.EnableDualCheck /\ ~p.IsBemfConsistent)

Prefix(seq, n) == IF Len(seq) <= n THEN seq ELSE SubSeq(seq, 1, n)

Tick(b) == nops < b /\ nops' = nops + 1

DoInit(b) ==
  /\ Tick(b)
  /\ sto' = STO_Init(sto)
  /\ g' = [InitGhost EXCEPT !.op = "init"]
  /\ UNCHANGED <<ff, fg>>

DoClear(b) ==
  /\ Tick(b)
  /\ sto' = STO_Clear(sto)
  /\ g' = [g EXCEPT !.op = "clear", !.convCalls = 0, !.allSat = TRUE,
                    !.convMiss = FALSE, !.failRun = 0, !.fail = FALSE,
                    !.hist = << >>, !.pending = 0, !.sync = TRUE,
                    !.angle = 0]
  /\ UNCHANGED <<ff, fg>>

DoCalcElAngle(Inputs, Outs, b) ==
  /\ Tick(b)
  /\ \E in \in Inputs, hOut \in Outs :
       LET r == STO_CalcElAngle(sto, in, hOut)
           c == STO_Clamped(sto)
       IN /\ sto' = r.h
          /\ g' = [g EXCEPT
                !.op = "step", !.err = r.err, !.angle = r.ret,
                !.hist = Prefix(<<r.speed>> \o g.hist,
                               sto.SpeedBufferSize01Hz),
                !.sync = g.sync /\ g.pending = 0,
                !.pending = IF g.pending = 0 THEN 1 ELSE 2,
                !.used = <<c.Ialfa_est, c.Ibeta_est, c.wBemf_alfa_est,
                           c.wBemf_beta_est>>]
  /\ UNCHANGED <<ff, fg>>

DoCalcAvrgElSpeedDpp(b) ==
  /\ Tick(b)
  /\ sto' = STO_CalcAvrgElSpeedDpp(sto)
  /\ g' = [g EXCEPT !.op = "avg", !.sync = g.sync /\ g.pending = 1,
                    !.pending = 0]
  /\ UNCHANGED <<ff, fg>>

DoCalcAvrgMecSpeed01Hz(b) ==
  /\ Tick(b)
  /\ g.failRun < MaxFailRun
  /\ \E bRet \in BOOLEAN, bErr \in 0 .. sto.bMaximumSpeedErrorsNumber :
       LET r == STO_CalcAvrgMecSpeed01Hz(sto, bRet, bErr)
           failing == FailingTick(r.h)
       IN /\ sto' = r.h
          /\ g' = [g EXCEPT
                !.op = "mec", !.ret = r.ret, !.base = r.base,
                !.baseRet = bRet, !.fail = failing,
                !.prevRC = sto.ReliabilityCounter,
                !.failRun = IF sto.IsAlgorithmConverged
                            THEN (IF failing THEN g.failRun + 1 ELSE 0)
                            ELSE g.failRun]
  /\ UNCHANGED <<ff, fg>>

\* STO_CalcAvrgMecSpeed01Hz one buffer read at a time, for the current-loop
\* interrupt to preempt it between reads: g.mpc reads are done, the first
\* SpeedBufferSize01Hz of them by the mean loop, the rest by the variance
\* loop; the last read is followed by the rest of the function.
DoCalcAvrgMecSpeed01HzRead(b) ==
  /\ Tick(b)
  /\ g.failRun < MaxFailRun
  /\ LET n == sto.SpeedBufferSize01Hz
         i == IF g.mpc < n THEN g.mpc ELSE g.mpc - n
         reads == Append(g.mreads, sto.Speed_Buffer[i])
     IN IF g.mpc + 1 < 2 * n
        THEN /\ sto' = sto
             /\ g' = [g EXCEPT !.op = "mecread", !.mpc = g.mpc + 1,
                               !.mreads = reads]
        ELSE \E bRet \in BOOLEAN,
                bErr \in 0 .. sto.bMaximumSpeedErrorsNumber :
               LET bufMean == [k \in 0 .. (n - 1) |-> reads[k + 1]]
                   bufVar == [k \in 0 .. (n - 1) |-> reads[n + k + 1]]
                   r == STO_CalcAvrgMecSpeed01Hz_Reads(sto, bufMean, bufVar,
                                                      bRet, bErr)
                   failing == FailingTick(r.h)
               IN /\ sto' = r.h
                  /\ g' = [g EXCEPT
                        !.op = "mec", !.ret = r.ret, !.base = r.base,
                        !.baseRet = bRet, !.fail = failing,
                        !.prevRC = sto.ReliabilityCounter,
                        !.failRun = IF sto.IsAlgorithmConverged
                                    THEN (IF failing THEN g.failRun + 1
                                          ELSE 0)
                                    ELSE g.failRun,
                        !.mpc = 0, !.mreads = << >>,
                        !.mmean = SubSeq(reads, 1, n),
                        !.mvar = SubSeq(reads, n + 1, 2 * n)]
  /\ UNCHANGED <<ff, fg>>

DoIsObserverConverged(Forced, b) ==
  /\ Tick(b)
  /\ g.convCalls < MaxConvCalls
  /\ \E hForced \in Forced :
       LET r == STO_IsObserverConverged(sto, hForced)
           eff == IF sto.ForceConvergency2 THEN sto.hAvrMecSpeed01Hz
                  ELSE hForced
           sat == FourConditions(sto, eff)
       IN /\ sto' = r.h
          /\ g' = [g EXCEPT
                !.op = "conv", !.ret = r.ret,
                !.convCalls = g.convCalls + 1,
                !.allSat = /\ g.allSat /\ sat
                           /\ ~sto.ForceConvergency /\ ~sto.ForceConvergency2,
                !.convMiss = ~sat /\ ~sto.ForceConvergency]
  /\ UNCHANGED <<ff, fg>>

\* A main-context call that returns nothing and leaves the handle q.
Setter(name, q, b) ==
  /\ Tick(b)
  /\ sto' = q
  /\ g' = [g EXCEPT !.op = name, !.angle = 0]
  /\ UNCHANGED <<ff, fg>>

DoSetPLL(Speeds, Angles, b) ==
  \E w \in Speeds, a \in Angles :
     Setter("setpll", STO_SetPLL(sto, w, a), b)

DoResetPLL(b) == Setter("resetpll", STO_ResetPLL(sto), b)

DoSetObserverGains(b) ==
  \E c \in {<<20000, 10000>>, <<-12000, 25000>>} :
     Setter("setgains", STO_SetObserverGains(sto, c[1], c[2]), b)

DoSetPLLGains(b) ==
  \E k \in {<<8, 1>>, <<16, 2>>} :
     Setter("setpllgains", STO_SetPLLGains(sto, k[1], k[2]), b)

DoBemfConsistencyCheckSwitch(b) ==
  \E bSel \in BOOLEAN :
     Setter("switch", STO_BemfConsistencyCheckSwitch(sto, bSel), b)

DoForceConvergency1(b) == Setter("force1", STO_ForceConvergency1(sto), b)

DoForceConvergency2(b) == Setter("force2", STO_ForceConvergency2(sto), b)

DoSetMinStartUpValidSpeed01HZ(b) ==
  \E v \in MinSpeeds :
     Setter("setmin", STO_SetMinStartUpValidSpeed01HZ(sto, v), b)

-----------------------------------------------------------------------------
(* Specifications of the observer *)

\* The observer after STO_Init, for one buffer configuration.
InitSTO(cfgs) ==
  /\ \E cfg \in cfgs : sto = STO_Init(RawHandle(cfg))
  /\ g = InitGhost
  /\ nops = 0

-----------------------------------------------------------------------------
(* Operations of feed_forward_ctrl.c on the handle p (FF_Handle_t).        *)
(* Voltages and currents are pairs <<Component1, Component2>>.             *)

\* Default tuning constants of the handle (wDefConstant_1D, _1Q, _2).
FFDefaults == [ wDefConstant_1D |-> 300, wDefConstant_1Q |-> 500,
                wDefConstant_2 |-> 700 ]

\* Builds and low-pass bandwidths: misra is FULL_MISRA_C_COMPLIANCY, BW is
\* pParams_str->hVqdLowPassFilterBW, LOG is hVqdLowPassFilterBWLOG.
FFConfigs ==
  { [misra |-> FALSE, BW |-> 1, LOG |-> 0],
    [misra |-> FALSE, BW |-> 2, LOG |-> 1],
    [misra |-> FALSE, BW |-> 4, LOG |-> 2],
    [misra |-> TRUE, BW |-> 1, LOG |-> 0],
    [misra |-> TRUE, BW |-> 3, LOG |-> 1],
    [misra |-> TRUE, BW |-> 4, LOG |-> 2] }

\* The handle as the application fills it before FF_Init.
RawFF(cfg) ==
  FFDefaults @@
  [ misra |-> cfg.misra, hVqdLowPassFilterBW |-> cfg.BW,
    hVqdLowPassFilterBWLOG |-> cfg.LOG,
    wConstant_1D |-> 0, wConstant_1Q |-> 0, wConstant_2 |-> 0,
    Vqdff |-> <<0, 0>>, VqdPIout |-> <<0, 0>>, VqdAvPIout |-> <<0, 0>>,
    pidIntegral_q |-> 0, pidIntegral_d |-> 0 ]

FF_Init(p) ==
  [p EXCEPT !.wConstant_1D = p.wDefConstant_1D,
            !.wConstant_1Q = p.wDefConstant_1Q,
            !.wConstant_2 = p.wDefConstant_2]

FF_Clear(p) == [p EXCEPT !.Vqdff = <<0, 0>>]

\* SATURATION_TO_S16 with the lower limit at the s16 minimum.
SATURATION_TO_S16_Asymmetric(a) ==
  IF a > 32767 THEN 32767 ELSE IF a < -32768 THEN -32768 ELSE a

SATURATION_TO_S16(a) ==
  IF a > 32767 THEN 32767 ELSE IF a < -32767 THEN -32767 ELSE a

\* K: the <<wConstant_1D, wConstant_1Q, wConstant_2>> the call reads;
\* hSpeed_dpp: SPD_GetElSpeedDpp of the speed sensor;
\* hAvBusVoltage: VBS_GetAvBusVoltage_d of the bus sensor.
VqdffValue(K, VqdAvPIout, Iqdref, hSpeed_dpp, hAvBusVoltage) ==
  LET hAvBusVoltage_d == hAvBusVoltage \div 2
      q1 == CDiv(hSpeed_dpp * Iqdref[2], 32768)
      q2 == CDiv(q1 * K[1], hAvBusVoltage_d) * 2
      q3 == CDiv(K[3] * hSpeed_dpp, hAvBusVoltage_d) * 16
      d1 == CDiv(hSpeed_dpp * Iqdref[1], 32768)
      d2 == CDiv(d1 * K[2], hAvBusVoltage_d) * 2
  IN << SATURATION_TO_S16(q3 + q2 + VqdAvPIout[1]),
        SATURATION_TO_S16(VqdAvPIout[2] - d2) >>

FF_VqdffComputation(p, Iqdref, hSpeed_dpp, hAvBusVoltage) ==
  [p EXCEPT !.Vqdff =
      VqdffValue(<<p.wConstant_1D, p.wConstant_1Q, p.wConstant_2>>,
                 p.VqdAvPIout, Iqdref, hSpeed_dpp, hAvBusVoltage)]

\* Yields [h, ret |-> the conditioned Vqd].
FF_VqdConditioning(p, Vqd) ==
  [h |-> [p EXCEPT !.VqdPIout = Vqd],
   ret |-> << SATURATION_TO_S16(Vqd[1] + p.Vqdff[1]),
              SATURATION_TO_S16(Vqd[2] + p.Vqdff[2]) >>]

\* LowPassShift with the old average not subtracted.
LowPassShift_NoSubtract(hAv, hPI, bwlog) ==
  Wrap16(Asr(Shl(hAv, bwlog) + hPI, bwlog))

\* One component of the low-pass, shift form (default build).
LowPassShift(hAv, hPI, bwlog) == Wrap16(Asr(Shl(hAv, bwlog) - hAv + hPI, bwlog))

\* One component of the low-pass, division form (FULL_MISRA_C_COMPLIANCY).
LowPassDiv(hAv, hPI, bw) == Wrap16(CDiv(hAv * (bw - 1) + hPI, bw))

LowPass(p, hAv, hPI) ==
  IF p.misra THEN LowPassDiv(hAv, hPI, p.hVqdLowPassFilterBW)
  ELSE LowPassShift(hAv, hPI, p.hVqdLowPassFilterBWLOG)

FF_DataProcess(p) ==
  [p EXCEPT !.VqdAvPIout = << LowPass(p, p.VqdAvPIout[1], p.VqdPIout[1]),
                              LowPass(p, p.VqdAvPIout[2], p.VqdPIout[2]) >>]

FF_InitFOCAdditionalMethods(p) ==
  [p EXCEPT !.VqdAvPIout = <<0, 0>>, !.pidIntegral_q = 0,
            !.pidIntegral_d = 0]

\* The three stores of FF_SetFFConstants, in program order: store k of the
\* argument sNewConstants = <<wConst_1D, wConst_1Q, wConst_2>>.
FF_SetFFConstants_Store(p, k, sNewConstants) ==
  CASE k = 1 -> [p EXCEPT !.wConstant_1D = sNewConstants[1]]
    [] k = 2 -> [p EXCEPT !.wConstant_1Q = sNewConstants[2]]
    [] k = 3 -> [p EXCEPT !.wConstant_2 = sNewConstants[3]]

FF_GetFFConstants(p) == <<p.wConstant_1D, p.wConstant_1Q, p.wConstant_2>>

FF_GetVqdff(p) == p.Vqdff

FF_GetVqdAvPIout(p) == p.Vqdff

-----------------------------------------------------------------------------
(* The feed-forward component as a state machine.                          *)
(*   ff : the FF_Handle_t instance                                         *)
(*   fg : the caller's side and history kept for the properties            *)
(*        op      the last operation (or store) executed                   *)
(*        setpc   stores of the FF_SetFFConstants call in progress already *)
(*                done (0: no call in progress)                            *)
(*        new     the argument of the FF_SetFFConstants call in progress   *)
(*                (of the last one when none is)                           *)
(*        old     the setting before it (the new one once it returned)     *)
(*        seen    the triple the last FF_VqdffComputation or               *)
(*                FF_GetFFConstants read                                   *)
(*        prevAv  VqdAvPIout before the last FF_DataProcess                *)
(*        ret     the pair the last value-returning call returned          *)
(*        in      what the last FF_VqdffComputation was given: Iqdref, the *)
(*                speed and bus voltage its sensors returned, and the      *)
(*                VqdAvPIout it found                                      *)
(* FF_SetFFConstants runs in main context, one store at a time; the other  *)
(* operations run to completion (speed-loop ISR, or main between calls).   *)
(***************************************************************************)

\* Arguments of FF_SetFFConstants.
TuningTriples == { <<300, 500, 700>>, <<310, 520, 730>> }

\* Iqdref, speed (dpp) and bus voltage handed to FF_VqdffComputation.
FFIqdref == { <<1000, -1000>>, <<32767, -32768>> }

FFSpeeds == { 0, 16384 }

FFBusVoltages == { 20000 }

\* Speeds and bus voltages for the saturation of the feed-forward terms:
\* the s16 extreme of the speed, a low bus.
SatSpeeds == { 0, 16384, -32768 }

SatBusVoltages == { 20000, 2000 }

MaxSatOps == 4

\* PI outputs handed to FF_VqdConditioning.
FFVqd == { <<0, 0>>, <<5, -6>>, <<-6, 5>>, <<32767, -32768>> }

MaxFFOps == 5

MaxLPOps == 12

InitFFGhost ==
  [ op |-> "init", setpc |-> 0,
    new |-> <<FFDefaults.wDefConstant_1D, FFDefaults.wDefConstant_1Q,
              FFDefaults.wDefConstant_2>>,
    old |-> <<FFDefaults.wDefConstant_1D, FFDefaults.wDefConstant_1Q,
              FFDefaults.wDefConstant_2>>,
    seen |-> <<FFDefaults.wDefConstant_1D, FFDefaults.wDefConstant_1Q,
               FFDefaults.wDefConstant_2>>,
    prevAv |-> <<0, 0>>, ret |-> <<0, 0>>,
    in |-> [Iqdref |-> <<0, 0>>, hSpeed_dpp |-> 0, hAvBusVoltage |-> 2,
            VqdAvPIout |-> <<0, 0>>] ]

InitFF(cfgs) ==
  /\ \E cfg \in cfgs : ff = FF_Init(RawFF(cfg))
  /\ fg = InitFFGhost

\* One store of FF_SetFFConstants; the first one starts the call.
DoFFSetFFConstants(b) ==
  /\ Tick(b)
  /\ \E arg \in TuningTriples :
       LET sNewConstants == IF fg.setpc = 0 THEN arg ELSE fg.new
           k == fg.setpc + 1
       IN /\ ff' = FF_SetFFConstants_Store(ff, k, sNewConstants)
          /\ fg' = [fg EXCEPT
                !.op = "set",
                !.setpc = IF k = 3 THEN 0 ELSE k,
                !.new = sNewConstants,
                !.old = IF k = 1 THEN FF_GetFFConstants(ff)
                        ELSE IF k = 3 THEN sNewConstants ELSE fg.old]
  /\ UNCHANGED <<sto, g>>

DoFFGetFFConstants(b) ==
  /\ Tick(b)
  /\ fg' = [fg EXCEPT !.op = "get", !.seen = FF_GetFFConstants(ff)]
  /\ UNCHANGED <<sto, g, ff>>

DoFFVqdffComputation(Speeds, BusVoltages, b) ==
  /\ Tick(b)
  /\ \E Iqdref \in FFIqdref, hSpeed_dpp \in Speeds,
        hAvBusVoltage \in BusVoltages :
       /\ ff' = FF_VqdffComputation(ff, Iqdref, hSpeed_dpp, hAvBusVoltage)
       /\ fg' = [fg EXCEPT !.op = "compute",
                           !.seen = <<ff.wConstant_1D, ff.wConstant_1Q,
                                      ff.wConstant_2>>,
                           !.in = [Iqdref |-> Iqdref,
                                   hSpeed_dpp |-> hSpeed_dpp,
                                   hAvBusVoltage |-> hAvBusVoltage,
                                   VqdAvPIout |-> ff.VqdAvPIout]]
  /\ UNCHANGED <<sto, g>>

DoFFVqdConditioning(b) ==
  /\ Tick(b)
  /\ \E Vqd \in FFVqd :
       LET r == FF_VqdConditioning(ff, Vqd)
       IN /\ ff' = r.h
          /\ fg' = [fg EXCEPT !.op = "condition", !.ret = r.ret]
  /\ UNCHANGED <<sto, g>>

DoFFDataProcess(b) ==
  /\ Tick(b)
  /\ ff' = FF_DataProcess(ff)
  /\ fg' = [fg EXCEPT !.op = "process", !.prevAv = ff.VqdAvPIout]
  /\ UNCHANGED <<sto, g>>

DoFFInitFOCAdditionalMethods(b) ==
  /\ Tick(b)
  /\ ff' = FF_InitFOCAdditionalMethods(ff)
  /\ fg' = [fg EXCEPT !.op = "initfoc"]
  /\ UNCHANGED <<sto, g>>

DoFFClear(b) ==
  /\ Tick(b)
  /\ ff' = FF_Clear(ff)
  /\ fg' = [fg EXCEPT !.op = "clear"]
  /\ UNCHANGED <<sto, g>>

DoFFGetVqdff(b) ==
  /\ Tick(b)
  /\ fg' = [fg EXCEPT !.op = "getvqdff", !.ret = FF_GetVqdff(ff)]
  /\ UNCHANGED <<sto, g, ff>>

DoFFGetVqdAvPIout(b) ==
  /\ Tick(b)
  /\ fg' = [fg EXCEPT !.op = "getvqdav", !.ret = FF_GetVqdAvPIout(ff)]
  /\ UNCHANGED <<sto, g, ff>>

-----------------------------------------------------------------------------
(* Specifications *)

\* Every operation of the observer, on zero observer inputs.
Init == InitSTO({<<2, 2, 1>>}) /\ InitFF({[misra |-> FALSE, BW |-> 2, LOG |-> 1]})

Next ==
  \/ DoInit(MaxOps)
  \/ DoClear(MaxOps)
  \/ DoCalcElAngle(ZeroInputs, PllSpeeds, MaxOps)
  \/ DoCalcAvrgElSpeedDpp(MaxOps)
  \/ DoCalcAvrgMecSpeed01Hz(MaxOps)
  \/ DoIsObserverConverged(ForcedSpeeds, MaxOps)
  \/ DoSetPLL(PllSpeeds, PllAngles, MaxOps)
  \/ DoResetPLL(MaxOps)
  \/ DoSetObserverGains(MaxOps)
  \/ DoSetPLLGains(MaxOps)
  \/ DoBemfConsistencyCheckSwitch(MaxOps)
  \/ DoForceConvergency1(MaxOps)
  \/ DoForceConvergency2(MaxOps)
  \/ DoSetMinStartUpValidSpeed01HZ(MaxOps)

Spec == Init /\ [][Next]_vars

\* The startup phase: the rotor is driven open loop (STO_SetPLL stands for
\* the speed the PLL settles at), the speed loop computes the mechanical
\* speed and asks the convergence detector.
NextConv ==
  \/ DoClear(MaxConvOps)
  \/ DoCalcElAngle(ZeroInputs, HeldOutput, MaxConvOps)
  \/ DoCalcAvrgMecSpeed01Hz(MaxConvOps)
  \/ DoIsObserverConverged(ForcedSpeeds, MaxConvOps)
  \/ DoSetPLL(PllSpeeds, {0}, MaxConvOps)
  \/ DoSetMinStartUpValidSpeed01HZ(MaxConvOps)

SpecConv == Init /\ [][NextConv]_vars

\* The run phase: reliability of the converged observer.
NextRel ==
  \/ DoClear(MaxRelOps)
  \/ DoCalcElAngle(ZeroInputs, HeldOutput, MaxRelOps)
  \/ DoCalcAvrgMecSpeed01Hz(MaxRelOps)
  \/ DoIsObserverConverged({100}, MaxRelOps)
  \/ DoForceConvergency1(MaxRelOps)
  \/ DoSetPLL({16384}, {0}, MaxRelOps)
  \/ DoBemfConsistencyCheckSwitch(MaxRelOps)

SpecRel == Init /\ [][NextRel]_vars

\* The speed buffer: pushes and averaging calls at independent rates, for
\* every buffer configuration.
InitBuf == InitSTO(BufferConfigs) /\ InitFF({[misra |-> FALSE, BW |-> 2, LOG |-> 1]})

NextBuf ==
  \/ DoClear(MaxBufOps)
  \/ DoCalcElAngle(ZeroInputs, HeldOutput, MaxBufOps)
  \/ DoCalcAvrgElSpeedDpp(MaxBufOps)
  \/ DoSetPLL(PllSpeeds, {0}, MaxBufOps)

SpecBuf == InitBuf /\ [][NextBuf]_vars

\* The observer equations on the inputs of a running drive.
NextObs ==
  \/ DoCalcElAngle(DriveInputs, PllSpeeds, MaxObsOps)
  \/ DoCalcAvrgElSpeedDpp(MaxObsOps)
  \/ DoSetPLL(PllSpeeds, PllAngles, MaxObsOps)

SpecObs == Init /\ [][NextObs]_vars

\* The feed-forward component.
InitFFAll == InitSTO({<<2, 2, 1>>}) /\ InitFF(FFConfigs)

NextFF ==
  \/ DoFFSetFFConstants(MaxFFOps)
  \/ DoFFGetFFConstants(MaxFFOps)
  \/ DoFFVqdffComputation(FFSpeeds, FFBusVoltages, MaxFFOps)
  \/ DoFFVqdConditioning(MaxFFOps)
  \/ DoFFDataProcess(MaxFFOps)
  \/ DoFFInitFOCAdditionalMethods(MaxFFOps)
  \/ DoFFClear(MaxFFOps)
  \/ DoFFGetVqdff(MaxFFOps)
  \/ DoFFGetVqdAvPIout(MaxFFOps)

SpecFF == InitFFAll /\ [][NextFF]_vars

\* The low-pass of the PI output alone.
NextLP ==
  \/ DoFFVqdConditioning(MaxLPOps)
  \/ DoFFDataProcess(MaxLPOps)
  \/ DoFFInitFOCAdditionalMethods(MaxLPOps)

SpecLP == InitFFAll /\ [][NextLP]_vars

\* The feed-forward terms and their saturation.
NextSat ==
  \/ DoFFSetFFConstants(MaxSatOps)
  \/ DoFFVqdffComputation(SatSpeeds, SatBusVoltages, MaxSatOps)
  \/ DoFFVqdConditioning(MaxSatOps)
  \/ DoFFDataProcess(MaxSatOps)

SpecSat == InitFFAll /\ [][NextSat]_vars

\* The setters of the main context against the operations the motor-control
\* interrupt runs, on both components.
MaxFrameOps == 3

NextFrame ==
  \/ DoClear(MaxFrameOps)
  \/ DoCalcElAngle(DriveInputs, PllSpeeds, MaxFrameOps)
  \/ DoCalcAvrgElSpeedDpp(MaxFrameOps)
  \/ DoCalcAvrgMecSpeed01Hz(MaxFrameOps)
  \/ DoIsObserverConverged(ForcedSpeeds, MaxFrameOps)
  \/ DoSetObserverGains(MaxFrameOps)
  \/ DoSetPLLGains(MaxFrameOps)
  \/ DoForceConvergency1(MaxFrameOps)
  \/ DoForceConvergency2(MaxFrameOps)
  \/ DoFFSetFFConstants(MaxFrameOps)
  \/ DoFFVqdffComputation(FFSpeeds, FFBusVoltages, MaxFrameOps)
  \/ DoFFVqdConditioning(MaxFrameOps)
  \/ DoFFDataProcess(MaxFrameOps)

SpecFrame == Init /\ [][NextFrame]_vars

\* The observer at standstill: every measurement zero, for every buffer
\* configuration; STO_SetPLL takes the state away from zero and STO_Clear
\* brings it back.
MaxZeroOps == 6

NextZero ==
  \/ DoClear(MaxZeroOps)
  \/ DoCalcElAngle(ZeroInputs, PllSpeeds, MaxZeroOps)
  \/ DoCalcAvrgElSpeedDpp(MaxZeroOps)
  \/ DoSetPLL(PllSpeeds, {0}, MaxZeroOps)
  \/ DoSetObserverGains(MaxZeroOps)

SpecZero == InitBuf /\ [][NextZero]_vars

\* The forced declaration of convergence during startup.
MaxForceOps == 7

NextForce ==
  \/ DoClear(MaxForceOps)
  \/ DoCalcElAngle(ZeroInputs, HeldOutput, MaxForceOps)
  \/ DoCalcAvrgMecSpeed01Hz(MaxForceOps)
  \/ DoIsObserverConverged(ForcedSpeeds, MaxForceOps)
  \/ DoForceConvergency1(MaxForceOps)
  \/ DoSetPLL({16384}, {0}, MaxForceOps)

SpecForce == Init /\ [][NextForce]_vars

\* STO_Init on a handle the application has filled, for every positive s16
\* value of the parameter hF2.
MaxInitOps == 2

F2Values == 1 .. INT16_MAX

InitRaw ==
  /\ \E f \in F2Values : sto = [RawHandle(<<2, 2, 1>>) EXCEPT !.hF2 = f]
  /\ g = [InitGhost EXCEPT !.op = "raw"]
  /\ nops = 0
  /\ InitFF({[misra |-> FALSE, BW |-> 2, LOG |-> 1]})

NextInit == DoInit(MaxInitOps)

SpecInit == InitRaw /\ [][NextInit]_vars

\* The speed loop preempted by the current loop: STO_CalcElAngle runs
\* between any two buffer reads of STO_CalcAvrgMecSpeed01Hz; the main
\* context (STO_SetPLL) runs only while no interrupt is being served.
MaxPreOps == 7

NextPre ==
  \/ DoCalcElAngle(ZeroInputs, HeldOutput, MaxPreOps)
  \/ DoCalcAvrgMecSpeed01HzRead(MaxPreOps)
  \/ (g.mpc = 0 /\ DoSetPLL(PllSpeeds, {0}, MaxPreOps))

SpecPre == Init /\ [][NextPre]_vars

\* The Bemf consistency check at and below the maximum application speed:
\* MaxAppPositiveMecSpeed01Hz is the speed the rotor runs at (100) or well
\* above it, the observed Bemf is zero or that of a driven motor.
MaxDualOps == 7

MaxAppSpeeds == { 100, 1000 }

DualInputs ==
  { [Ialfa |-> 0, Ibeta |-> 0, Valfa |-> 0, Vbeta |-> 0, Vbus |-> 0],
    [Ialfa |-> 1000, Ibeta |-> -2000, Valfa |-> 8000, Vbeta |-> 8000,
     Vbus |-> 16384] }

InitDual ==
  /\ \E m \in MaxAppSpeeds :
       sto = STO_Init([RawHandle(<<2, 2, 1>>)
                         EXCEPT !.MaxAppPositiveMecSpeed01Hz = m])
  /\ g = InitGhost
  /\ nops = 0
  /\ InitFF({[misra |-> FALSE, BW |-> 2, LOG |-> 1]})

NextDual ==
  \/ DoCalcElAngle(DualInputs, {16384}, MaxDualOps)
  \/ DoCalcAvrgMecSpeed01Hz(MaxDualOps)
  \/ DoIsObserverConverged({100}, MaxDualOps)
  \/ DoForceConvergency1(MaxDualOps)
  \/ DoBemfConsistencyCheckSwitch(MaxDualOps)

SpecDual == InitDual /\ [][NextDual]_vars

\* The buffer index under every operation that reads or writes the buffer,
\* for every buffer configuration and the one-slot buffer.
MaxIdxOps == 7

IdxConfigs == BufferConfigs \cup { <<1, 1, 0>> }

InitIdx == InitSTO(IdxConfigs) /\ InitFF({[misra |-> FALSE, BW |-> 2, LOG |-> 1]})

NextIdx ==
  \/ DoClear(MaxIdxOps)
  \/ DoCalcElAngle(ZeroInputs, HeldOutput, MaxIdxOps)
  \/ DoCalcAvrgElSpeedDpp(MaxIdxOps)
  \/ DoCalcAvrgMecSpeed01Hz(MaxIdxOps)

SpecIdx == InitIdx /\ [][NextIdx]_vars

-----------------------------------------------------------------------------
(* Properties of the convergence detector (SpecConv, Spec) *)

\* C1: from a cleared observer with no force flag set, of
\* T = StartUpConsistThreshold consecutive calls of STO_IsObserverConverged
\* that each satisfy the four conditions, the first T-1 return false and
\* the T-th returns true, sets IsAlgorithmConverged and zeroes
\* bSpeedErrorNumber.
C1_ConvergedOnThresholdCall ==
  (g.op = "conv" /\ g.allSat /\ g.convCalls <= sto.StartUpConsistThreshold)
    => /\ g.ret <=> (g.convCalls = sto.StartUpConsistThreshold)
       /\ (g.convCalls = sto.StartUpConsistThreshold)
            => (sto.IsAlgorithmConverged /\ sto.bSpeedErrorNumber = 0)
       /\ (g.convCalls < sto.StartUpConsistThreshold)
            => ~sto.IsAlgorithmConverged

\* The T-th satisfying call in a row has just returned, with T > 1.
C1_Witness ==
  /\ g.op = "conv" /\ g.allSat
  /\ g.convCalls = sto.StartUpConsistThreshold
  /\ sto.StartUpConsistThreshold > 1
  /\ g.ret

\* C2 as stated: with ForceConvergency unset, a call of
\* STO_IsObserverConverged in which one of the four conditions fails leaves
\* ConsistencyCounter at 0.
C2_MissResetsCounter ==
  (g.op = "conv" /\ g.convMiss) => sto.ConsistencyCounter = 0

\* C3: once IsAlgorithmConverged is true, every operation other than
\* STO_Clear and STO_Init leaves it true.
C3_ConvergedLatched ==
  [][ sto.IsAlgorithmConverged
        => (sto'.IsAlgorithmConverged \/ g'.op \in {"clear", "init"}) ]_vars

\* Convergence is declared and STO_CalcAvrgMecSpeed01Hz has since refused
\* the speed (the tripping branch ran).
C3_Witness ==
  /\ sto.IsAlgorithmConverged
  /\ g.op = "mec" /\ g.fail /\ ~g.base

-----------------------------------------------------------------------------
(* Properties of the speed buffer and its rolling sum (SpecBuf) *)

\* The sum of the n newest entries of hist (newest first); entries hist does
\* not have count as 0.
RECURSIVE SumNewest(_, _)
SumNewest(hist, n) ==
  IF n = 0 \/ hist = << >> THEN 0
  ELSE Head(hist) + SumNewest(Tail(hist), n - 1)

\* C4: from a cleared observer, with STO_CalcAvrgElSpeedDpp called exactly
\* once after each STO_CalcElAngle, DppBufferSum after every such call is the
\* sum of the SpeedBufferSizedpp most recently stored speeds (0 for those
\* before the first store), whether SpeedBufferSize01Hz equals
\* SpeedBufferSizedpp or exceeds it.
C4_RollingSumInLockstep ==
  (g.op = "avg" /\ g.sync)
    => sto.DppBufferSum = SumNewest(g.hist, sto.SpeedBufferSizedpp)

\* Lockstep, SpeedBufferSize01Hz > SpeedBufferSizedpp, the buffer is full,
\* the index of the leaving sample wrapped past the end of the buffer and
\* the sample that left is not zero.
C4_Witness ==
  /\ g.op = "avg" /\ g.sync
  /\ sto.SpeedBufferSize01Hz > sto.SpeedBufferSizedpp
  /\ Len(g.hist) = sto.SpeedBufferSize01Hz
  /\ sto.Speed_Buffer_Index + sto.SpeedBufferSize01Hz
       - sto.SpeedBufferSizedpp >= sto.SpeedBufferSize01Hz
  /\ g.hist[sto.SpeedBufferSizedpp + 1] # 0

\* Lockstep, SpeedBufferSize01Hz = SpeedBufferSizedpp = 4, and the sample
\* that left the window (the SpeedBufferOldestEl snapshot) is not zero.
C4_WitnessOldestEl ==
  /\ g.op = "avg" /\ g.sync
  /\ sto.SpeedBufferSize01Hz = sto.SpeedBufferSizedpp
  /\ sto.SpeedBufferSizedpp = 4
  /\ Len(g.hist) = sto.SpeedBufferSize01Hz
  /\ sto.SpeedBufferOldestEl # 0

\* C5 as stated: however many STO_CalcElAngle calls fall between two
\* STO_CalcAvrgElSpeedDpp calls, once SpeedBufferSizedpp speeds are stored
\* the hElSpeedDpp an averaging call publishes is the mean of the
\* SpeedBufferSizedpp most recently stored speeds.
C5_PublishedMeanAtAnyRate ==
  (g.op = "avg" /\ Len(g.hist) >= sto.SpeedBufferSizedpp)
    => sto.hElSpeedDpp * sto.SpeedBufferSizedpp
         = SumNewest(g.hist, sto.SpeedBufferSizedpp)

-----------------------------------------------------------------------------
(* Properties of the observer state and of the reliability check           *)
(* (SpecObs, Spec, SpecRel)                                                *)

InClampRange(w, hF) == Abs(w) <= INT16_MAX * hF

\* C6 as stated: in the state STO_CalcElAngle leaves, each stored scaled
\* estimate is within its clamp range.
C6_StoredWithinClamp ==
  g.op = "step"
    => /\ InClampRange(sto.Ialfa_est, sto.hF1)
       /\ InClampRange(sto.Ibeta_est, sto.hF1)
       /\ InClampRange(sto.wBemf_alfa_est, sto.hF2)
       /\ InClampRange(sto.wBemf_beta_est, sto.hF2)

\* C6 amended: each scaled estimate STO_CalcElAngle consumes is within its
\* clamp range (the clamps run at the head of the call, on what the call
\* before stored), and so are the BEMF estimates it publishes.
C6_ConsumedWithinClamp ==
  g.op = "step"
    => /\ InClampRange(g.used[1], sto.hF1)
       /\ InClampRange(g.used[2], sto.hF1)
       /\ InClampRange(g.used[3], sto.hF2)
       /\ InClampRange(g.used[4], sto.hF2)
       /\ Abs(sto.hBemf_alfa_est) <= INT16_MAX
       /\ Abs(sto.hBemf_beta_est) <= INT16_MAX

\* A call of STO_CalcElAngle whose clamp acted: it consumed a current
\* estimate at the limit of the range.
C6_Witness ==
  /\ g.op = "step"
  /\ Abs(g.used[1]) = INT16_MAX * sto.hF1

AllZeroBuffer ==
  \A i \in 0 .. (sto.SpeedBufferSize01Hz - 1) : sto.Speed_Buffer[i] = 0

\* C7 as stated: with every sample of the speed buffer zero,
\* STO_CalcAvrgMecSpeed01Hz sets IsSpeedReliable to true and, with the dual
\* check enabled, IsBemfConsistent to false.
C7_ZeroBufferReliable ==
  (g.op = "mec" /\ AllZeroBuffer)
    => /\ sto.IsSpeedReliable
       /\ sto.EnableDualCheck => ~sto.IsBemfConsistent

\* C7 amended: with every sample of the speed buffer zero (and zero BEMF
\* estimates, as zero inputs from a cleared state leave them),
\* STO_CalcAvrgMecSpeed01Hz sets IsSpeedReliable to false, the variance 0
\* not being below the threshold 0; with the dual check enabled it sets
\* IsBemfConsistent to false.
C7_ZeroBufferNotReliable ==
  (g.op = "mec" /\ AllZeroBuffer
     /\ sto.hBemf_alfa_est = 0 /\ sto.hBemf_beta_est = 0)
    => /\ ~sto.IsSpeedReliable
       /\ sto.hAvrMecSpeed01Hz = 0
       /\ sto.EnableDualCheck => ~sto.IsBemfConsistent

\* STO_CalcAvrgMecSpeed01Hz has run on an all-zero buffer with the dual
\* check enabled.
C7_Witness ==
  /\ g.op = "mec" /\ AllZeroBuffer
  /\ sto.hBemf_alfa_est = 0 /\ sto.hBemf_beta_est = 0
  /\ sto.EnableDualCheck
  /\ ~sto.IsSpeedReliable /\ ~sto.IsBemfConsistent

\* C8: while IsAlgorithmConverged, STO_CalcAvrgMecSpeed01Hz trips on the
\* Reliability_hysteresys-th failing call in a row and not before: it then
\* sets bSpeedErrorNumber to bMaximumSpeedErrorsNumber and returns false
\* without calling SPD_IsMecSpeedReliable; an earlier failing call returns
\* the base verdict; a passing call zeroes ReliabilityCounter and returns
\* the base verdict; while not converged, ReliabilityCounter is unchanged
\* and the base verdict is returned.
C8_ReliabilityHysteresis ==
  g.op = "mec" =>
    IF ~sto.IsAlgorithmConverged
    THEN /\ sto.ReliabilityCounter = g.prevRC
         /\ g.base /\ (g.ret <=> g.baseRet)
    ELSE IF ~g.fail
    THEN /\ sto.ReliabilityCounter = 0
         /\ g.base /\ (g.ret <=> g.baseRet)
    ELSE IF g.failRun % sto.Reliability_hysteresys = 0
    THEN /\ ~g.base /\ ~g.ret
         /\ sto.bSpeedErrorNumber = sto.bMaximumSpeedErrorsNumber
         /\ sto.ReliabilityCounter = 0
    ELSE /\ g.base /\ (g.ret <=> g.baseRet)
         /\ sto.ReliabilityCounter = g.failRun % sto.Reliability_hysteresys

\* The Reliability_hysteresys-th failing call in a row has tripped, the one
\* before it having deferred to the base check.
C8_Witness ==
  /\ g.op = "mec" /\ sto.IsAlgorithmConverged /\ g.fail
  /\ sto.Reliability_hysteresys > 1
  /\ g.failRun = sto.Reliability_hysteresys
  /\ ~g.base /\ ~g.ret

\* A passing call while converged has zeroed a ReliabilityCounter that an
\* earlier failing call had raised.
C8_WitnessReset ==
  /\ g.op = "mec" /\ sto.IsAlgorithmConverged /\ ~g.fail
  /\ g.prevRC > 0 /\ sto.ReliabilityCounter = 0

-----------------------------------------------------------------------------
(* Properties of the feed-forward component (SpecFF, SpecLP) *)

\* C9 as stated: the triple FF_VqdffComputation or FF_GetFFConstants reads,
\* also while it preempts FF_SetFFConstants, is the old setting or the new
\* one, never a mix of the two.
C9_TripleReadWhole ==
  fg.op \in {"compute", "get"} => fg.seen \in {fg.old, fg.new}

\* The bandwidth N of the low-pass of the build.
LowPassN(p) ==
  IF p.misra THEN p.hVqdLowPassFilterBW ELSE Pow2(p.hVqdLowPassFilterBWLOG)

\* C10 as stated, its convergence part: with VqdPIout held, an average that
\* FF_DataProcess no longer moves has reached VqdPIout.
C10_SettlesAtInput ==
  (fg.op = "process" /\ fg.prevAv = ff.VqdAvPIout)
    => ff.VqdAvPIout = ff.VqdPIout

\* One component of C10_TowardInput: a the average before the call, b after
\* it, v the input, n the bandwidth.
TowardInput(a, b, v, n) ==
  /\ (a <= v) => (a <= b /\ b <= v)
  /\ (a >= v) => (v <= b /\ b <= a)
  /\ (b = a) => Abs(v - b) < n

\* C10 amended: each call of FF_DataProcess moves each component of
\* VqdAvPIout toward VqdPIout or leaves it, never past it, and a component it
\* leaves is less than N away from the input: the average settles within
\* N - 1 of a constant input, not always on it.
C10_TowardInput ==
  fg.op = "process"
    => \A i \in 1 .. 2 :
         TowardInput(fg.prevAv[i], ff.VqdAvPIout[i], ff.VqdPIout[i],
                     LowPassN(ff))

\* FF_DataProcess has stopped moving a nonzero average short of its input.
C10_Witness ==
  /\ fg.op = "process" /\ fg.prevAv = ff.VqdAvPIout
  /\ ff.VqdAvPIout[1] # 0
  /\ ff.VqdAvPIout[1] # ff.VqdPIout[1]

Min(a, b) == IF a < b THEN a ELSE b

Max(a, b) == IF a > b THEN a ELSE b

\* The q and d sums of the feed-forward formulas before saturation, on the
\* inputs and constants of the last FF_VqdffComputation, in exact integers.
ExactVqdff ==
  LET w == fg.in.hSpeed_dpp
      vh == fg.in.hAvBusVoltage \div 2
      t1q == CDiv(w * fg.in.Iqdref[2], 32768)
      t2q == CDiv(t1q * fg.seen[1], vh) * 2
      t3q == CDiv(fg.seen[3] * w, vh) * 16
      t1d == CDiv(w * fg.in.Iqdref[1], 32768)
      t2d == CDiv(t1d * fg.seen[2], vh) * 2
  IN << t2q + t3q + fg.in.VqdAvPIout[1], fg.in.VqdAvPIout[2] - t2d >>

C12_GetterReturnsAverage ==
  fg.op = "getvqdav" => fg.ret = ff.VqdAvPIout

-----------------------------------------------------------------------------
(* Properties of STO_Clear, of the setters and of the zero state *)

\* The dynamic state of the observer at rest.
DynamicStateZero(p) ==
  /\ p.Ialfa_est = 0 /\ p.Ibeta_est = 0
  /\ p.wBemf_alfa_est = 0 /\ p.wBemf_beta_est = 0
  /\ p.hBemf_alfa_est = 0 /\ p.hBemf_beta_est = 0
  /\ p.hElAngle = 0 /\ p.hElSpeedDpp = 0
  /\ \A i \in 0 .. (p.SpeedBufferSize01Hz - 1) : p.Speed_Buffer[i] = 0
  /\ p.Speed_Buffer_Index = 0 /\ p.SpeedBufferOldestEl = 0
  /\ p.DppBufferSum = 0
  /\ p.ConsistencyCounter = 0 /\ p.ReliabilityCounter = 0
  /\ ~p.IsAlgorithmConverged /\ ~p.IsBemfConsistent /\ ~p.IsSpeedReliable
  /\ ~p.ForceConvergency /\ ~p.ForceConvergency2
  /\ p.wIntegralTerm = 0

\* C13 as stated: STO_Clear zeroes all dynamic observer state, the s16 BEMF
\* estimates and IsSpeedReliable included, and a second STO_Clear changes
\* nothing.
C13_ClearZeroesDynamicState ==
  g.op = "clear" => (DynamicStateZero(sto) /\ STO_Clear(sto) = sto)


\* The fields of a handle whose value differs between p and q.
Changed(p, q) == { f \in DOMAIN p : p[f] # q[f] }

\* Fields the operations of the interrupt context store to:
\* STO_CalcElAngle (with STO_ExecutePLL and STO_Store_Rotor_Speed),
\* STO_CalcAvrgElSpeedDpp, STO_CalcAvrgMecSpeed01Hz and
\* STO_IsObserverConverged on the observer; FF_VqdffComputation,
\* FF_VqdConditioning and FF_DataProcess on the feed-forward handle.
StoIsrWritten ==
  { "Ialfa_est", "Ibeta_est", "wBemf_alfa_est", "wBemf_beta_est",
    "hBemf_alfa_est", "hBemf_beta_est", "hElAngle", "wIntegralTerm",
    "Speed_Buffer", "Speed_Buffer_Index", "SpeedBufferOldestEl",
    "DppBufferSum", "hElSpeedDpp", "hAvrMecSpeed01Hz", "IsBemfConsistent",
    "Obs_Bemf_Level", "Est_Bemf_Level", "ReliabilityCounter",
    "IsSpeedReliable", "bSpeedErrorNumber", "ConsistencyCounter",
    "IsAlgorithmConverged" }

FFIsrWritten == { "Vqdff", "VqdPIout", "VqdAvPIout" }

StoIsrOps == { "step", "avg", "mec", "conv" }

FFIsrOps == { "compute", "condition", "process" }

\* The setters of the main context other than STO_Clear.
StoSetterOps == { "setgains", "setpllgains", "force1", "force2" }

\* C14 as stated: no main-context setter, STO_Clear included, changes a
\* field that an operation of the interrupt context stores to.
C14_SettersWriteNoIsrField ==
  [][ /\ g'.op \in StoSetterOps \cup {"clear"}
           => Changed(sto, sto') \cap StoIsrWritten = {}
      /\ fg'.op = "set" => Changed(ff, ff') \cap FFIsrWritten = {} ]_vars

\* C14, amended: the operations of the interrupt context change only the
\* fields listed above, and STO_SetObserverGains, STO_SetPLLGains,
\* STO_ForceConvergency1, STO_ForceConvergency2 and FF_SetFFConstants change
\* none of them (STO_Clear does: estimates, angle, buffer sum, counters, flags
\* and the PLL integrator).
C14_SettersButClearWriteNoIsrField ==
  [][ /\ g'.op \in StoIsrOps => Changed(sto, sto') \subseteq StoIsrWritten
      /\ fg'.op \in FFIsrOps => Changed(ff, ff') \subseteq FFIsrWritten
      /\ g'.op \in StoSetterOps
           => Changed(sto, sto') \cap StoIsrWritten = {}
      /\ fg'.op = "set" => Changed(ff, ff') \cap FFIsrWritten = {} ]_vars

\* A setter has taken effect between operations of the interrupt context
\* that changed the observer's state: the force flag and a new gain are in
\* place while the angle has moved.
C14_Witness ==
  /\ g.op \in StoSetterOps
  /\ sto.hElAngle # 0
  /\ sto.ForceConvergency \/ sto.hC2 = -12000 \/ sto.hKpGain = 16

\* The state C15 speaks of: scaled and s16 estimates, angle, omega_dpp, the
\* buffer with its oldest element, the rolling sum and the PLL integrator.
ZeroState(p) ==
  /\ p.Ialfa_est = 0 /\ p.Ibeta_est = 0
  /\ p.wBemf_alfa_est = 0 /\ p.wBemf_beta_est = 0
  /\ p.hBemf_alfa_est = 0 /\ p.hBemf_beta_est = 0
  /\ p.hElAngle = 0 /\ p.hElSpeedDpp = 0
  /\ \A i \in 0 .. (p.SpeedBufferSize01Hz - 1) : p.Speed_Buffer[i] = 0
  /\ p.SpeedBufferOldestEl = 0
  /\ p.DppBufferSum = 0
  /\ p.wIntegralTerm = 0

\* C15: zero is a fixed point.  With every observer input zero, a call of
\* STO_CalcElAngle or of STO_CalcAvrgElSpeedDpp on a state whose estimates,
\* angle, omega_dpp, buffer, rolling sum and PLL integrator are zero leaves
\* all of them zero, and STO_Clear establishes that state.
C15_ZeroIsFixedPoint ==
  [][ /\ (g'.op = "clear" /\ nops' # nops) => ZeroState(sto')
      /\ (ZeroState(sto) /\ g'.op \in {"step", "avg"}) => ZeroState(sto')
    ]_vars

\* The third push in a row on the zero state has been made, after a
\* STO_Clear: the buffer has wrapped and everything is still zero.
C15_Witness ==
  /\ g.op = "step" /\ Len(g.hist) >= 2 /\ nops >= 5
  /\ ZeroState(sto)
  /\ g.hist[1] = 0

-----------------------------------------------------------------------------
(* The forced declaration of convergence (SpecForce) *)

\* C16: STO_ForceConvergency1 sets the force flag, the flag stays set until
\* STO_Clear, and while it is set every call of STO_IsObserverConverged
\* returns true, sets IsAlgorithmConverged, zeroes bSpeedErrorNumber and
\* leaves ConsistencyCounter as it was, whatever the forced speed, the
\* estimated speed and IsSpeedReliable.
C16_ForcedConvergence ==
  [][ /\ (g'.op = "force1" /\ nops' # nops) => sto'.ForceConvergency
      /\ (sto.ForceConvergency /\ g'.op # "clear") => sto'.ForceConvergency
      /\ (sto.ForceConvergency /\ g'.op = "conv" /\ nops' # nops)
           => /\ g'.ret
              /\ sto'.IsAlgorithmConverged
              /\ sto'.bSpeedErrorNumber = 0
              /\ sto'.ConsistencyCounter = sto.ConsistencyCounter
    ]_vars

\* A forced call has answered true on an observer whose consistency count
\* stands at one from an earlier passing call.
C16_Witness ==
  /\ g.op = "conv" /\ g.ret /\ sto.ForceConvergency
  /\ sto.ConsistencyCounter = 1
  /\ sto.IsAlgorithmConverged /\ sto.bSpeedErrorNumber = 0

\* The same on an observer whose speed is not reliable.
C16_WitnessUnreliable ==
  /\ g.op = "conv" /\ g.ret /\ sto.ForceConvergency
  /\ ~sto.IsSpeedReliable /\ sto.hAvrMecSpeed01Hz = 0

-----------------------------------------------------------------------------
(* The two builds of FF_DataProcess (SpecLP) *)

\* C17 as stated: when the bandwidth is a power of two, N = 2^LOG, the
\* average FF_DataProcess stores is what the shift form gives and what the
\* division form gives on the same old average and PI output, negative
\* values included: the two builds round alike.
C17_ShiftAndDivisionAgree ==
  (fg.op = "process"
     /\ Pow2(ff.hVqdLowPassFilterBWLOG) = ff.hVqdLowPassFilterBW)
    => \A i \in 1 .. 2 :
         /\ ff.VqdAvPIout[i]
              = LowPassShift(fg.prevAv[i], ff.VqdPIout[i],
                             ff.hVqdLowPassFilterBWLOG)
         /\ ff.VqdAvPIout[i]
              = LowPassDiv(fg.prevAv[i], ff.VqdPIout[i],
                           ff.hVqdLowPassFilterBW)

-----------------------------------------------------------------------------
(* The constants STO_Init derives (SpecInit) *)

RECURSIVE Halvings(_)
\* How many times n is halved, in exact integers, until it is zero.
Halvings(n) == IF n = 0 THEN 0 ELSE 1 + Halvings(n \div 2)

\* C18 as stated: for every positive s16 hF2, STO_Init leaves F3POW2 the
\* number of halvings of 1043038 / hF2 (at most 16), hF3 = 2^F3POW2, a
\* positive power of two, and hC6 = hF2 * hF3 / 10430.
C18_DerivedConstants ==
  g.op = "init"
    => /\ sto.F3POW2 = Halvings(C6_COMP_CONST1 \div sto.hF2)
       /\ sto.F3POW2 <= 16
       /\ sto.hF3 = Pow2(sto.F3POW2)
       /\ sto.hF3 > 0
       /\ sto.hC6 = (sto.hF2 * sto.hF3) \div C6_COMP_CONST2

-----------------------------------------------------------------------------
(* STO_CalcAvrgMecSpeed01Hz preempted by STO_CalcElAngle (SpecPre) *)

\* C19 as stated: whenever STO_CalcElAngle preempts STO_CalcAvrgMecSpeed01Hz
\* and pushes samples, the variance loop of the call has read the very
\* buffer contents its mean loop read.
C19_CoherentSnapshot ==
  (g.op = "mec" /\ g.mmean # << >>) => g.mmean = g.mvar

-----------------------------------------------------------------------------
(* The error of the PLL (SpecObs) *)

\* The quantities of the last STO_CalcElAngle the PLL error is stated in:
\* the angle before the update, the direction from the speed the call read
\* (the call leaves hElSpeedDpp alone), the decimated s16 estimates the call
\* stored times the direction, and the trig values of the angle.
PLLTerms ==
  LET theta == Wrap16(sto.hElAngle - g.hist[1])
      dir == IF sto.hElSpeedDpp >= 0 THEN 1 ELSE -1
      t == MCM_Trig_Functions(theta)
  IN [ eAlpha |-> sto.hBemf_alfa_est * dir,
       eBeta |-> sto.hBemf_beta_est * dir,
       sin |-> t[1], cos |-> t[2], dir |-> dir, theta |-> theta ]

\* C20 as stated: the error handed to the PI regulator is
\* (e_beta' * cos - e_alpha' * sin) / 32768, the quotient rounded down or
\* toward zero.
C20_ErrorAsStated ==
  g.op = "step"
    => LET x == PLLTerms.eBeta * PLLTerms.cos - PLLTerms.eAlpha * PLLTerms.sin
       IN g.err \in { x \div 32768, CDiv(x, 32768) }

\* C20 amended: the error handed to the PI regulator is
\* floor(-e_beta' * cos / 32768) - floor(e_alpha' * sin / 32768): the beta
\* estimate enters with its sign inverted, and each product is shifted
\* right by 15 on its own before the subtraction.
C20_ErrorNegatedBeta ==
  g.op = "step"
    => g.err = ((-PLLTerms.eBeta * PLLTerms.cos) \div 32768)
                 - ((PLLTerms.eAlpha * PLLTerms.sin) \div 32768)

\* A step with a nonzero error in the reverse direction, at an angle other
\* than zero.
C20_Witness ==
  /\ g.op = "step" /\ g.err # 0
  /\ PLLTerms.dir = -1 /\ PLLTerms.theta # 0

\* A step whose beta estimate alone makes the error.
C20_WitnessBeta ==
  /\ g.op = "step" /\ g.err # 0
  /\ PLLTerms.eBeta # 0 /\ PLLTerms.sin = 0

-----------------------------------------------------------------------------
(* The push and the angle update of STO_CalcElAngle (SpecBuf) *)

\* x wrapped modulo 2^16 into -32768 .. 32767.
WrapAngle(x) == ((x + 32768) % 65536) - 32768

\* C21: each STO_CalcElAngle changes one slot of Speed_Buffer, the one at
\* the new Speed_Buffer_Index, which then holds the PLL output w; the stored
\* angle is the old angle plus w wrapped modulo 2^16 into the s16 range, and
\* the call returns the stored angle.
C21_PushThenAdvanceAngle ==
  [][ (g'.op = "step" /\ nops' # nops)
        => LET w == g'.hist[1]
               n == sto.SpeedBufferSize01Hz
           IN /\ sto'.Speed_Buffer[sto'.Speed_Buffer_Index] = w
              /\ \A i \in 0 .. (n - 1) :
                    i # sto'.Speed_Buffer_Index
                      => sto'.Speed_Buffer[i] = sto.Speed_Buffer[i]
              /\ sto'.hElAngle = WrapAngle(sto.hElAngle + w)
              /\ sto'.hElAngle \in -32768 .. 32767
              /\ g'.angle = sto'.hElAngle
    ]_vars

\* A step has pushed 16384 at angle 16384: the sum 32768 wrapped to -32768,
\* the index wrapped to slot 0, and another slot still holds a different
\* sample.
C21_Witness ==
  /\ g.op = "step" /\ Len(g.hist) >= 2
  /\ g.hist[1] = 16384 /\ sto.Speed_Buffer_Index = 0
  /\ \E i \in DOMAIN sto.Speed_Buffer : sto.Speed_Buffer[i] # 16384
  /\ sto.hElAngle = -32768 /\ g.angle = -32768

-----------------------------------------------------------------------------
(* The Bemf consistency check and the reliability decision (SpecDual) *)

\* The stores of a failing tick of a converged observer: the counter goes
\* up by one, or the call trips when that reaches Reliability_hysteresys.
CountedAsFailure(p, q, ret) ==
  IF p.ReliabilityCounter + 1 >= p.Reliability_hysteresys
  THEN /\ q.ReliabilityCounter = 0 /\ ~ret
       /\ q.bSpeedErrorNumber = q.bMaximumSpeedErrorsNumber
  ELSE q.ReliabilityCounter = p.ReliabilityCounter + 1

\* C22: with EnableDualCheck set, a call of STO_CalcAvrgMecSpeed01Hz whose
\* |speed| is MaxAppPositiveMecSpeed01Hz or more clears IsBemfConsistent
\* whatever the observed Bemf, and on a converged observer counts as a
\* failing tick; with EnableDualCheck reset the call leaves IsBemfConsistent
\* as it was and a tick whose speed is reliable zeroes ReliabilityCounter
\* and defers to the base check.
C22_OutOfRangeIsInconsistent ==
  [][ (g'.op = "mec" /\ nops' # nops)
        => /\ (sto.EnableDualCheck
                 /\ Abs(sto'.hAvrMecSpeed01Hz)
                      >= sto.MaxAppPositiveMecSpeed01Hz)
                => /\ ~sto'.IsBemfConsistent
                   /\ sto.IsAlgorithmConverged
                        => CountedAsFailure(sto, sto', g'.ret)
           /\ ~sto.EnableDualCheck
                => /\ sto'.IsBemfConsistent = sto.IsBemfConsistent
                   /\ (sto.IsAlgorithmConverged /\ sto'.IsSpeedReliable)
                        => /\ sto'.ReliabilityCounter = 0
                           /\ g'.base /\ (g'.ret <=> g'.baseRet)
    ]_vars

\* A converged observer at the maximum application speed, its speed
\* reliable and its observed Bemf far above the estimated level, has
\* tripped on the second tick out of range.
C22_Witness ==
  /\ g.op = "mec" /\ sto.EnableDualCheck /\ sto.IsAlgorithmConverged
  /\ sto.hAvrMecSpeed01Hz = sto.MaxAppPositiveMecSpeed01Hz
  /\ sto.IsSpeedReliable /\ ~sto.IsBemfConsistent
  /\ sto.hBemf_alfa_est # 0
  /\ g.fail /\ g.failRun = 2 /\ ~g.base /\ ~g.ret

\* With the check switched off, a call at the maximum application speed
\* has left a set IsBemfConsistent alone and has not failed.
C22_WitnessDisabled ==
  /\ g.op = "mec" /\ ~sto.EnableDualCheck /\ sto.IsAlgorithmConverged
  /\ sto.hAvrMecSpeed01Hz >= sto.MaxAppPositiveMecSpeed01Hz
  /\ sto.IsSpeedReliable /\ ~g.fail /\ g.base

-----------------------------------------------------------------------------
(* The positions of the speed buffer (SpecIdx) *)

\* C23: Speed_Buffer_Index stays within 0 .. SpeedBufferSize01Hz - 1, each
\* STO_CalcElAngle advances it by one modulo SpeedBufferSize01Hz and writes
\* there, STO_CalcAvrgElSpeedDpp reads the newest position and the leaving
\* one, (newest + SpeedBufferSize01Hz - SpeedBufferSizedpp) modulo
\* SpeedBufferSize01Hz, both within the buffer, and no other operation moves
\* the index but STO_Clear, which puts it at 0.
C23_IndexWithinBuffer ==
  [][ LET n == sto.SpeedBufferSize01Hz
          slots == 0 .. (n - 1)
      IN /\ sto.Speed_Buffer_Index \in slots
         /\ sto'.Speed_Buffer_Index \in slots
         /\ DOMAIN sto'.Speed_Buffer = slots
         /\ (g'.op = "step" /\ nops' # nops)
              => sto'.Speed_Buffer_Index = (sto.Speed_Buffer_Index + 1) % n
         /\ (g'.op = "avg" /\ nops' # nops)
              => /\ AvrgElSpeedDppPositions(sto) \subseteq slots
                 /\ (sto.Speed_Buffer_Index + n - sto.SpeedBufferSizedpp) % n
                      \in AvrgElSpeedDppPositions(sto)
                 /\ sto'.Speed_Buffer_Index = sto.Speed_Buffer_Index
         /\ (g'.op = "mec" /\ nops' # nops)
              => sto'.Speed_Buffer_Index = sto.Speed_Buffer_Index
         /\ (g'.op = "clear" /\ nops' # nops)
              => sto'.Speed_Buffer_Index = 0
    ]_vars

\* In a three-slot buffer the index has wrapped from the last slot to slot
\* 0 and gone on, the averaging call having read a leaving position that
\* wrapped as well, with a mechanical-speed call in between.
C23_Witness ==
  /\ g.op = "avg" /\ sto.SpeedBufferSize01Hz = 3
  /\ sto.SpeedBufferSizedpp = 2
  /\ Len(g.hist) = 3 /\ nops >= 5
  /\ sto.Speed_Buffer_Index = 2
  /\ AvrgElSpeedDppPositions(sto) = {2, 0}

====
